---- MODULE Spec2Model ----
(***************************************************************************)
(* Model of scripts/utils/02_consensus_coordinates.py: the interval        *)
(* clusterer (cluster_by_contig), the per-tool reducer and consensus       *)
(* resolver (consensus_edgewise, best_group) and the identifier mapper     *)
(* (create_mapping), run in the order main() runs them (Spec), also as     *)
(* far as the member table (SpecCluster) and as far as the consensus       *)
(* table (SpecConsensus); then homogenize_file on one identifier column    *)
(* (SpecHomogenize), a second run of the pipeline on the consensus_ids of  *)
(* the first (SpecRerun) or on the same calls listed in another order      *)
(* (SpecRelist), and best_group called on its own with longer lists        *)
(* (SpecBestGroup).                                                        *)
(*                                                                         *)
(* Conventions.  A prophage identifier "<contig>_prophage_<a>_<b>" is the  *)
(* tuple <<contig, a, b>>.  Python's None is NoneVal.  Row labels and list *)
(* indices are 1-based here and 0-based in the code.  The method string    *)
(* "x+y" is the sequence of its fragments, a fragment "start_consensus_2"  *)
(* the record [name |-> "start_consensus", k |-> 2] (k = 0 when the        *)
(* fragment carries no number).                                            *)
(***************************************************************************)
EXTENDS Integers, Sequences, FiniteSets, TLC

\* ------------------------------------------------------------------ bounds
\* Coordinates of the input identifiers range over 0..MaxCoord.
MaxCoord == 3
\* Coordinates on the second contig range over 0..ShortCoord.
ShortCoord == 1
\* Identifiers read from the three summary files, in total.
MaxCalls == 2

\* Rows of the identifier column of a file given to homogenize_file.
MaxRows == 2

\* Values in a list given to best_group on its own.
MaxVals == 5

\* --------------------------------------------------------------- constants
NoneVal == -1

\* The defaults of cluster_by_contig and consensus_edgewise, which main() uses:
\* overlap_thresh = 0.5 as <<numerator, denominator>>, max_dist, tol.
DefaultOverlapThresh == <<1, 2>>
DefaultMaxDist == 1000
DefaultTol == 200

Tools == {"GeNomad", "VIBRANT", "VirSorter2"}
\* Python's string order on the tool names.
ToolRank == [t \in Tools |-> CASE t = "GeNomad" -> 1 [] t = "VIBRANT" -> 2 [] OTHER -> 3]

Contigs == {"ctg1", "ctg2"}
\* Python's string order on the contig names.
ContigRank == [c \in Contigs |-> IF c = "ctg1" THEN 1 ELSE 2]

\* ----------------------------------------------------------------- helpers
Min2(a, b) == IF a <= b THEN a ELSE b
Max2(a, b) == IF a >= b THEN a ELSE b
Abs(a) == IF a >= 0 THEN a ELSE 0 - a
Range(s) == {s[k] : k \in DOMAIN s}
MinOf(S) == CHOOSE x \in S : \A y \in S : x <= y
MaxOf(S) == CHOOSE x \in S : \A y \in S : x >= y

\* Series.unique() / drop_duplicates(): first occurrences, in order.
RECURSIVE Unique(_)
Unique(s) ==
  IF s = <<>> THEN <<>>
  ELSE LET init == Unique(SubSeq(s, 1, Len(s) - 1))
           x == s[Len(s)]
       IN IF x \in Range(init) THEN init ELSE Append(init, x)

\* Python's order on tuples of integers of one length (lexicographic).
LessLex(a, b) == \E k \in 1..Len(a) : a[k] < b[k] /\ \A j \in 1..(k - 1) : a[j] = b[j]

\* The stable sorting permutation of a sequence of keys (tuples of integers):
\* the indices of keys, ascending by key, equal keys in their original order.
\* Index by index, each goes behind every index already placed whose key is
\* not greater.
RECURSIVE InsertStable(_, _, _)
InsertStable(x, perm, keys) ==
  IF perm = <<>> THEN <<x>>
  ELSE IF LessLex(keys[x], keys[perm[Len(perm)]])
       THEN Append(InsertStable(x, SubSeq(perm, 1, Len(perm) - 1), keys), perm[Len(perm)])
       ELSE Append(perm, x)

RECURSIVE SortPermUpTo(_, _)
SortPermUpTo(keys, n) ==
  IF n = 0 THEN <<>> ELSE InsertStable(n, SortPermUpTo(keys, n - 1), keys)

SortPerm(keys) == SortPermUpTo(keys, Len(keys))

\* s reordered by the stable sort of its rows' keys.
SortByKeys(s, keys) ==
  LET perm == SortPerm(keys) IN [k \in 1..Len(s) |-> s[perm[k]]]

\* ----------------------------------------------------------------- parsing
\* PROPHAGE_RE splits "<contig>_prophage_<a>_<b>"; the interval is
\* normalised so that start <= end.
parse_prophage_id(id) == <<id[1], Min2(id[2], id[3]), Max2(id[2], id[3])>>

\* One loader: the file's identifier column without duplicates, one call
\* per identifier.
load_from(tool, file) ==
  LET ids == Unique(file)
  IN [k \in 1..Len(ids) |->
        LET p == parse_prophage_id(ids[k])
        IN [tool |-> tool, contig |-> p[1], start |-> p[2], end |-> p[3],
            id_raw |-> ids[k]]]

load_from_virsorter(file) == load_from("VirSorter2", file)
load_from_vibrant(file) == load_from("VIBRANT", file)
load_from_genomad(file) == load_from("GeNomad", file)

\* main(): the call table is the loaders' tables, concatenated in this order.
LoadCalls(fVS, fVB, fGN) ==
  load_from_virsorter(fVS) \o load_from_vibrant(fVB) \o load_from_genomad(fGN)

\* ------------------------------------------------------------------ inputs
\* The identifiers a summary file may hold: intervals on ctg1 with the
\* coordinates in ascending order, and on the short ctg2 the intervals
\* between its two ends, 0 and ShortCoord, in either order.
RawIds ==
  {id \in {"ctg1"} \X (0..MaxCoord) \X (0..MaxCoord) : id[2] <= id[3]}
    \cup ({"ctg2"} \X {0, ShortCoord} \X {0, ShortCoord})

\* The parameters of the runs on these identifiers, the defaults scaled to
\* the coordinates: overlap_thresh, max_dist, tol.
SmallConfig == [overlap_thresh |-> <<1, 2>>, max_dist |-> 1, tol |-> 1]

\* The identifiers of the documented scenarios, at full scale: the three
\* calls of the end-to-end scenario, calls starting at 105, 500 and 900 (the
\* majority and fallback scenarios), a call far from all of them, and three
\* calls whose starts agree in one pair of tools and whose ends agree in
\* another.
ScenarioIds ==
  { <<"ctg1", 100, 5000>>, <<"ctg1", 110, 4995>>, <<"ctg1", 3000, 3100>>,
    <<"ctg1", 105, 5000>>, <<"ctg1", 500, 5000>>, <<"ctg1", 900, 5000>>,
    <<"ctg1", 9000, 9100>>,
    <<"ctg1", 0, 900>>, <<"ctg1", 1000, 1050>>, <<"ctg1", 1000, 5000>> }

\* The identifier columns of the three files (VirSorter2, VIBRANT, geNomad):
\* at most MaxCalls identifiers in all.
FilesUpTo(ids, n) ==
  UNION { [1..n1 -> ids] \X [1..n2 -> ids] \X [1..(k - n1 - n2) -> ids] :
            <<k, n1, n2>> \in {x \in (1..n) \X (0..n) \X (0..n) : x[2] + x[3] <= x[1]} }

\* Each file holds at most one identifier, and not all are empty.
FilesOfOne(ids) ==
  LET file == {<<>>} \cup {<<id>> : id \in ids}
  IN (file \X file \X file) \ {<<<< >>, << >>, << >>>>}

\* ------------------------------------------------------------------- state
VARIABLES
  pc,             \* "groupby", "sweep", "consensus", "mapping", "done"
  calls,          \* the call table, main()'s `calls`
  overlap_thresh, \* cluster_by_contig's parameters
  max_dist,
  tol,            \* consensus_edgewise's parameter
  done_contigs,   \* contigs of calls.groupby("contig", sort=False) already swept
  dfc,            \* the current contig's rows, sorted by (start, end)
  i,              \* label of the next row of dfc to sweep
  cluster_id,
  cur_start,
  cur_end,
  cur_members,    \* labels (in dfc) of the open cluster's rows
  member_rows,    \* the flushed clusters' rows, each with its cluster_idx
  consensus,      \* consensus_edgewise's table
  mapping,        \* create_mapping's dictionary
  run,            \* 1 in a run on the tools' files, 2 in a run on its output
  id_column,      \* homogenize_file: df[id_column] as read
  homogenized,    \* homogenize_file: df[id_column] as written
  bg_values,      \* best_group called on its own: its argument `values`
  returned,       \* best_group called on its own: what it returned
  listed_first    \* what the run on the table as first listed put out

vars == <<pc, calls, overlap_thresh, max_dist, tol, done_contigs, dfc, i,
          cluster_id, cur_start, cur_end, cur_members, member_rows,
          consensus, mapping, run, id_column, homogenized, bg_values, returned,
          listed_first>>

sweepVars == <<dfc, i, cluster_id, cur_start, cur_end, cur_members>>

\* What the steps of cluster_by_contig, consensus_edgewise and create_mapping
\* leave alone.
otherVars == <<run, id_column, homogenized, bg_values, returned, listed_first>>

\* Small coordinates: any files of at most MaxCalls identifiers, or one
\* identifier from each tool.
InputSmall ==
  /\ \E f \in FilesUpTo(RawIds, MaxCalls) \cup FilesOfOne(RawIds) :
       calls = LoadCalls(f[1], f[2], f[3])
  /\ overlap_thresh = SmallConfig.overlap_thresh
  /\ max_dist = SmallConfig.max_dist
  /\ tol = SmallConfig.tol

\* The documented scenarios, with the default parameters.
InputScenario ==
  /\ \E f \in FilesOfOne(ScenarioIds) : calls = LoadCalls(f[1], f[2], f[3])
  /\ overlap_thresh = DefaultOverlapThresh
  /\ max_dist = DefaultMaxDist
  /\ tol = DefaultTol

\* The state when main() calls cluster_by_contig: the call table is loaded
\* from the three summary files (at least one call), nothing is clustered.
Init ==
  /\ InputSmall \/ InputScenario
  /\ pc = "groupby"
  /\ done_contigs = 0
  /\ dfc = <<>>
  /\ i = 1
  /\ cluster_id = 0
  /\ cur_start = NoneVal
  /\ cur_end = NoneVal
  /\ cur_members = <<>>
  /\ member_rows = <<>>
  /\ consensus = <<>>
  /\ mapping = <<>>
  /\ run = 1
  /\ id_column = <<>>
  /\ homogenized = <<>>
  /\ bg_values = <<>>
  /\ returned = <<>>
  /\ listed_first = <<>>

\* -------------------------------------------------------------- clustering
\* The groups of calls.groupby("contig", sort=False): the contigs in the
\* order of their first row.
GroupOrder(table) == Unique([k \in 1..Len(table) |-> table[k].contig])

IsContig(r, contig) == r.contig = contig

\* Mutant of SortedGroup: the sort_values call left out.
SortedGroup_unsorted(table, contig) ==
  SelectSeq(table, LAMBDA r : IsContig(r, contig))

\* Mutant of SortedGroup: the rows sorted in descending order.
SortedGroup_descending(table, contig) ==
  LET rows == SelectSeq(table, LAMBDA r : IsContig(r, contig))
  IN SortByKeys(rows, [k \in 1..Len(rows) |-> <<0 - rows[k].start, 0 - rows[k].end>>])

\* Mutant of SortedGroup: the rows sorted by tool before start and end.
SortedGroup_by_tool(table, contig) ==
  LET rows == SelectSeq(table, LAMBDA r : IsContig(r, contig))
  IN SortByKeys(rows, [k \in 1..Len(rows) |->
                         <<ToolRank[rows[k].tool], rows[k].start, rows[k].end>>])

\* Mutant of SortedGroup: the rows sorted by end alone.
SortedGroup_by_end(table, contig) ==
  LET rows == SelectSeq(table, LAMBDA r : IsContig(r, contig))
  IN SortByKeys(rows, [k \in 1..Len(rows) |-> <<rows[k].end>>])

\* One group: the contig's rows in table order, then
\* sort_values(["start", "end"]).reset_index(drop=True).
SortedGroup(table, contig) ==
  LET rows == SelectSeq(table, LAMBDA r : IsContig(r, contig))
  IN SortByKeys(rows, [k \in 1..Len(rows) |-> <<rows[k].start, rows[k].end>>])

\* Mutant of flush: the row that opened the cluster is lost.
flush_without_opener(rows, members, cid, contig) ==
  [k \in 1..(Len(members) - 1) |->
     [tool |-> rows[members[k + 1]].tool, contig |-> contig,
      start |-> rows[members[k + 1]].start, end |-> rows[members[k + 1]].end,
      id_raw |-> rows[members[k + 1]].id_raw, cluster_idx |-> cid]]

\* flush(): the open cluster's rows, labelled with the cluster and contig.
flush(rows, members, cid, contig) ==
  [k \in 1..Len(members) |->
     [tool |-> rows[members[k]].tool, contig |-> contig,
      start |-> rows[members[k]].start, end |-> rows[members[k]].end,
      id_raw |-> rows[members[k]].id_raw, cluster_idx |-> cid]]

\* The merge test of one row (s, e) against the open envelope.
inter(s, e, cs, ce) == Max2(0, Min2(e, ce) - Max2(s, cs))

\* Mutant of min_recip_ge: a zero-length interval counts as fully overlapped.
min_recip_ge_zero_len(s, e, cs, ce, thr) ==
  LET len_a == e - s
      len_b == ce - cs
      it == inter(s, e, cs, ce)
  IN IF len_a = 0 \/ len_b = 0
     THEN TRUE
     ELSE it * thr[2] >= thr[1] * len_a /\ it * thr[2] >= thr[1] * len_b

\* min_recip >= overlap_thresh, with overlap_thresh = thr[1] / thr[2].
min_recip_ge(s, e, cs, ce, thr) ==
  LET len_a == e - s
      len_b == ce - cs
      it == inter(s, e, cs, ce)
  IN IF len_a = 0 \/ len_b = 0
     THEN 0 >= thr[1]
     ELSE it * thr[2] >= thr[1] * len_a /\ it * thr[2] >= thr[1] * len_b

\* Mutant of gap: the distance is taken from the envelope's start.
gap_from_start(s, e, cs, ce) == Max2(s - cs, 0)

gap(s, e, cs, ce) ==
  IF inter(s, e, cs, ce) > 0 THEN 0 ELSE Max2(Max2(s - ce, cs - e), 0)

\* Mutant of merges: the proximity disjunct left out.
merges_overlap_only(s, e, cs, ce, thr, md) == min_recip_ge(s, e, cs, ce, thr)

\* Mutant of merges: the row's own end compared, so that a later row always
\* passes the proximity test.
merges_wrong_edge(s, e, cs, ce, thr, md) ==
  min_recip_ge(s, e, cs, ce, thr) \/ Max2(cs - e, 0) <= md

merges(s, e, cs, ce, thr, md) ==
  min_recip_ge(s, e, cs, ce, thr) \/ gap(s, e, cs, ce) <= md

\* for contig, dfc in calls.groupby(...): the next contig's sweep begins.
BeginContig ==
  /\ pc = "groupby"
  /\ done_contigs < Len(GroupOrder(calls))
  /\ dfc' = SortedGroup(calls, GroupOrder(calls)[done_contigs + 1])
  /\ i' = 1
  /\ cluster_id' = 0
  /\ cur_start' = NoneVal
  /\ cur_end' = NoneVal
  /\ cur_members' = <<>>
  /\ pc' = "sweep"
  /\ UNCHANGED otherVars
  /\ UNCHANGED <<calls, overlap_thresh, max_dist, tol, done_contigs,
                 member_rows, consensus, mapping>>

\* The first row of a contig opens cluster 1.
OpenFirst ==
  /\ pc = "sweep"
  /\ i <= Len(dfc)
  /\ cur_start = NoneVal
  /\ cluster_id' = cluster_id + 1
  /\ cur_start' = dfc[i].start
  /\ cur_end' = dfc[i].end
  /\ cur_members' = <<i>>
  /\ i' = i + 1
  /\ UNCHANGED otherVars
  /\ UNCHANGED <<pc, calls, overlap_thresh, max_dist, tol, done_contigs, dfc,
                 member_rows, consensus, mapping>>

\* Mutant of Merge: cur_end takes the row's end, not the larger of the two.
Merge_end_overwritten ==
  /\ pc = "sweep"
  /\ i <= Len(dfc)
  /\ cur_start # NoneVal
  /\ merges(dfc[i].start, dfc[i].end, cur_start, cur_end, overlap_thresh, max_dist)
  /\ cur_members' = Append(cur_members, i)
  /\ cur_start' = Min2(cur_start, dfc[i].start)
  /\ cur_end' = dfc[i].end
  /\ i' = i + 1
  /\ UNCHANGED otherVars
  /\ UNCHANGED <<pc, calls, overlap_thresh, max_dist, tol, done_contigs, dfc,
                 cluster_id, member_rows, consensus, mapping>>

\* A row that passes the merge test joins the open cluster.
Merge ==
  /\ pc = "sweep"
  /\ i <= Len(dfc)
  /\ cur_start # NoneVal
  /\ merges(dfc[i].start, dfc[i].end, cur_start, cur_end, overlap_thresh, max_dist)
  /\ cur_members' = Append(cur_members, i)
  /\ cur_start' = Min2(cur_start, dfc[i].start)
  /\ cur_end' = Max2(cur_end, dfc[i].end)
  /\ i' = i + 1
  /\ UNCHANGED otherVars
  /\ UNCHANGED <<pc, calls, overlap_thresh, max_dist, tol, done_contigs, dfc,
                 cluster_id, member_rows, consensus, mapping>>

\* Mutant of FlushAndOpen: the cluster index is not advanced, so the rows
\* flushed next join the cluster flushed here.
FlushAndOpen_same_cluster ==
  /\ pc = "sweep"
  /\ i <= Len(dfc)
  /\ cur_start # NoneVal
  /\ ~merges(dfc[i].start, dfc[i].end, cur_start, cur_end, overlap_thresh, max_dist)
  /\ member_rows' = member_rows \o
       flush(dfc, cur_members, cluster_id, GroupOrder(calls)[done_contigs + 1])
  /\ cluster_id' = cluster_id
  /\ cur_start' = dfc[i].start
  /\ cur_end' = dfc[i].end
  /\ cur_members' = <<i>>
  /\ i' = i + 1
  /\ UNCHANGED otherVars
  /\ UNCHANGED <<pc, calls, overlap_thresh, max_dist, tol, done_contigs, dfc,
                 consensus, mapping>>

\* A row that fails it flushes the open cluster and opens the next one.
FlushAndOpen ==
  /\ pc = "sweep"
  /\ i <= Len(dfc)
  /\ cur_start # NoneVal
  /\ ~merges(dfc[i].start, dfc[i].end, cur_start, cur_end, overlap_thresh, max_dist)
  /\ member_rows' = member_rows \o
       flush(dfc, cur_members, cluster_id, GroupOrder(calls)[done_contigs + 1])
  /\ cluster_id' = cluster_id + 1
  /\ cur_start' = dfc[i].start
  /\ cur_end' = dfc[i].end
  /\ cur_members' = <<i>>
  /\ i' = i + 1
  /\ UNCHANGED otherVars
  /\ UNCHANGED <<pc, calls, overlap_thresh, max_dist, tol, done_contigs, dfc,
                 consensus, mapping>>

\* After a contig's last row the open cluster is flushed; after the last
\* contig cluster_by_contig returns the member table.
EndContig ==
  /\ pc = "sweep"
  /\ i > Len(dfc)
  /\ member_rows' = member_rows \o
       flush(dfc, cur_members, cluster_id, GroupOrder(calls)[done_contigs + 1])
  /\ done_contigs' = done_contigs + 1
  /\ pc' = IF done_contigs + 1 < Len(GroupOrder(calls)) THEN "groupby" ELSE "consensus"
  /\ UNCHANGED otherVars
  /\ UNCHANGED <<calls, overlap_thresh, max_dist, tol, sweepVars, consensus, mapping>>

\* --------------------------------------------------------------- consensus
\* Mutant of Median: the mean of the two middle values is rounded up.
Median_round_up(vals) ==
  LET sorted == SortByKeys(vals, [k \in 1..Len(vals) |-> <<vals[k]>>])
      n == Len(vals)
  IN IF n % 2 = 1 THEN sorted[(n + 1) \div 2]
     ELSE (sorted[n \div 2] + sorted[n \div 2 + 1] + 1) \div 2

\* Mutant of Median: for an even count, the upper of the two middle values.
Median_upper(vals) ==
  LET sorted == SortByKeys(vals, [k \in 1..Len(vals) |-> <<vals[k]>>])
      n == Len(vals)
  IN sorted[n \div 2 + 1]

\* Mutant of Median: for an even count, the two middle values added and not
\* halved.
Median_sum(vals) ==
  LET sorted == SortByKeys(vals, [k \in 1..Len(vals) |-> <<vals[k]>>])
      n == Len(vals)
  IN IF n % 2 = 1 THEN sorted[(n + 1) \div 2]
     ELSE sorted[n \div 2] + sorted[n \div 2 + 1]

\* int(np.median(x)): the middle value, or for an even count the mean of the
\* two middle values, truncated (the values are never negative).
Median(vals) ==
  LET sorted == SortByKeys(vals, [k \in 1..Len(vals) |-> <<vals[k]>>])
      n == Len(vals)
  IN IF n % 2 = 1 THEN sorted[(n + 1) \div 2]
     ELSE (sorted[n \div 2] + sorted[n \div 2 + 1]) \div 2

\* The connected component of the indices in S: adj links two indices whose
\* values differ by at most tol_.
RECURSIVE Component(_, _, _)
Component(values, tol_, S) ==
  LET grown == S \cup {v \in 1..Len(values) :
                         \E u \in S : u # v /\ Abs(values[u] - values[v]) <= tol_}
  IN IF grown = S THEN S ELSE Component(values, tol_, grown)

\* Mutant of GroupsFrom: a component of one index is kept as a group.
RECURSIVE GroupsFrom_singletons(_, _, _, _)
GroupsFrom_singletons(values, tol_, k, seen) ==
  IF k > Len(values) THEN <<>>
  ELSE IF k \in seen THEN GroupsFrom_singletons(values, tol_, k + 1, seen)
  ELSE LET comp == Component(values, tol_, {k})
       IN <<comp>> \o GroupsFrom_singletons(values, tol_, k + 1, seen \cup comp)

\* The loop over i: the components of size >= 2, each found from its
\* smallest index, in that order.
RECURSIVE GroupsFrom(_, _, _, _)
GroupsFrom(values, tol_, k, seen) ==
  IF k > Len(values) THEN <<>>
  ELSE IF k \in seen THEN GroupsFrom(values, tol_, k + 1, seen)
  ELSE LET comp == Component(values, tol_, {k})
       IN (IF Cardinality(comp) >= 2 THEN <<comp>> ELSE <<>>)
            \o GroupsFrom(values, tol_, k + 1, seen \cup comp)

\* Mutant of GroupKey: key = (len(idx), width), the smallest group first.
GroupKey_smallest(values, comp) ==
  LET vals == {values[k] : k \in comp}
  IN <<Cardinality(comp), MaxOf(vals) - MinOf(vals)>>

\* key = (-len(idx), width)
GroupKey(values, comp) ==
  LET vals == {values[k] : k \in comp}
  IN <<0 - Cardinality(comp), MaxOf(vals) - MinOf(vals)>>

\* The loop over groups: a group replaces best only when its key is
\* strictly smaller.
RECURSIVE PickBest(_, _, _, _)
PickBest(values, groups, k, best) ==
  IF k > Len(groups) THEN best
  ELSE IF best = {} \/ LessLex(GroupKey(values, groups[k]), GroupKey(values, best))
       THEN PickBest(values, groups, k + 1, groups[k])
       ELSE PickBest(values, groups, k + 1, best)

\* The indices of a set, ascending: sorted(list(comp)).
SortedIdx(comp) ==
  LET RECURSIVE Upto(_)
      Upto(k) == IF k = 0 THEN <<>>
                 ELSE IF k \in comp THEN Append(Upto(k - 1), k) ELSE Upto(k - 1)
  IN Upto(IF comp = {} THEN 0 ELSE MaxOf(comp))

\* best_group(values, tools, tol): <<med, used>>, or <<None, []>>.
best_group(values, tools, tol_) ==
  LET groups == GroupsFrom(values, tol_, 1, {})
  IN IF groups = <<>> THEN <<NoneVal, <<>>>>
     ELSE LET best == SortedIdx(PickBest(values, groups, 1, {}))
          IN <<Median([k \in 1..Len(best) |-> values[best[k]]]),
               [k \in 1..Len(best) |-> tools[best[k]]]>>

\* sorted(tools): a list of tool names in Python's string order.
SortedTools(ts) == SortByKeys(ts, [k \in 1..Len(ts) |-> <<ToolRank[ts[k]]>>])

\* Mutant of rep: the tool left out of the groupby, one representative per
\* member call.
rep_per_call(members) ==
  LET sk == SortByKeys(members, [k \in 1..Len(members) |->
                                   <<ContigRank[members[k].contig], members[k].cluster_idx,
                                     ToolRank[members[k].tool]>>])
  IN [k \in 1..Len(sk) |->
        [contig |-> sk[k].contig, cluster_idx |-> sk[k].cluster_idx, tool |-> sk[k].tool,
         start |-> sk[k].start, end |-> sk[k].end]]

\* rep: one row per (contig, cluster_idx, tool) of the members, in the order
\* of these keys, with the medians of the tool's starts and ends.
rep(members) ==
  LET keyOf(m) == <<m.contig, m.cluster_idx, m.tool>>
      ks == Unique([k \in 1..Len(members) |-> keyOf(members[k])])
      sk == SortByKeys(ks, [k \in 1..Len(ks) |->
                              <<ContigRank[ks[k][1]], ks[k][2], ToolRank[ks[k][3]]>>])
      rowsOf(key) == SelectSeq(members, LAMBDA m : keyOf(m) = key)
  IN [k \in 1..Len(sk) |->
        LET rows == rowsOf(sk[k])
        IN [contig |-> sk[k][1], cluster_idx |-> sk[k][2], tool |-> sk[k][3],
            start |-> Median([j \in 1..Len(rows) |-> rows[j].start]),
            end |-> Median([j \in 1..Len(rows) |-> rows[j].end])]]

\* Mutant of is_none: `not x`, which also takes a median of 0 for None.
is_falsy(x) == x = NoneVal \/ x = 0

\* `x is None`.
is_none(x) == x = NoneVal

\* The n_tools == 1 branch: the only representative, verbatim.
single_tool_parts(tools, starts, ends) ==
  [s_cons |-> starts[1], e_cons |-> ends[1],
   method |-> <<[name |-> "single_tool", k |-> 0]>>,
   used_s |-> tools, used_e |-> tools]

\* The else branch: start and end resolved one after the other by
\* best_group, each with its fallback when best_group returns None.
majority_parts(tools, starts, ends, tol_) ==
  LET sg == best_group(starts, tools, tol_)
      eg == best_group(ends, tools, tol_)
      used_s == IF is_none(sg[1]) THEN tools ELSE sg[2]
      used_e == IF is_none(eg[1]) THEN tools ELSE eg[2]
      start_part == IF is_none(sg[1]) THEN [name |-> "start_min", k |-> 0]
                    ELSE [name |-> "start_consensus", k |-> Len(used_s)]
      end_part == IF is_none(eg[1]) THEN [name |-> "end_max", k |-> 0]
                  ELSE [name |-> "end_consensus", k |-> Len(used_e)]
  IN [s_cons |-> IF is_none(sg[1]) THEN MinOf(Range(starts)) ELSE sg[1],
      e_cons |-> IF is_none(eg[1]) THEN MaxOf(Range(ends)) ELSE eg[1],
      method |-> <<start_part, end_part>>,
      used_s |-> used_s, used_e |-> used_e]

\* Mutant of consensus_parts: the n_tools == 1 branch left out.
consensus_parts_no_single(tools, starts, ends, tol_) ==
  majority_parts(tools, starts, ends, tol_)

consensus_parts(tools, starts, ends, tol_) ==
  IF Len(tools) = 1 THEN single_tool_parts(tools, starts, ends)
  ELSE majority_parts(tools, starts, ends, tol_)

\* The body of the loop of consensus_edgewise: the record of one cluster from
\* its representatives g (tools, starts, ends in the order of rep).
consensus_row(contig, g, tol_) ==
  LET tools == [k \in 1..Len(g) |-> g[k].tool]
      starts == [k \in 1..Len(g) |-> g[k].start]
      ends == [k \in 1..Len(g) |-> g[k].end]
      p == consensus_parts(tools, starts, ends, tol_)
  IN [consensus_id |-> <<contig, p.s_cons, p.e_cons>>,
      contig |-> contig,
      n_tools |-> Len(tools),
      tools |-> SortedTools(tools),
      consensus_start |-> p.s_cons,
      consensus_end |-> p.e_cons,
      method |-> p.method,
      used_tools_start |-> SortedTools(p.used_s),
      used_tools_end |-> SortedTools(p.used_e)]

\* The representatives of one cluster, in the order of rep.
RepGroup(reps, contig, cid) ==
  SelectSeq(reps, LAMBDA r : r.contig = contig /\ r.cluster_idx = cid)

\* Mutant of out_key: the records of a contig in descending order of
\* consensus_start.
out_key_descending(row) == <<ContigRank[row.contig], 0 - row.consensus_start>>

\* The order in which out is sorted: sort_values(["contig", "consensus_start"]).
out_key(row) == <<ContigRank[row.contig], row.consensus_start>>

\* consensus_edgewise(members_df, tol): one record per (contig, cluster_idx)
\* of rep, in rep's order, then sorted.
consensus_edgewise(members, tol_) ==
  LET reps == rep(members)
      gs == Unique([k \in 1..Len(reps) |-> <<reps[k].contig, reps[k].cluster_idx>>])
      rows == [k \in 1..Len(gs) |->
                 consensus_row(gs[k][1], RepGroup(reps, gs[k][1], gs[k][2]), tol_)]
  IN SortByKeys(rows, [k \in 1..Len(rows) |-> out_key(rows[k])])

ConsensusEdgewise ==
  /\ pc = "consensus"
  /\ consensus' = consensus_edgewise(member_rows, tol)
  /\ pc' = "mapping"
  /\ UNCHANGED otherVars
  /\ UNCHANGED <<calls, overlap_thresh, max_dist, tol, done_contigs, sweepVars,
                 member_rows, mapping>>

\* ----------------------------------------------------------- homogenization
\* contig_consensus: the rows of the consensus table of one contig.
contig_consensus(consensus_df, contig) ==
  SelectSeq(consensus_df, LAMBDA r : r.contig = contig)

\* Mutant of consensus_of_cluster: the position is taken in the whole table
\* (the cluster_idx column create_mapping adds) instead of the contig's rows.
consensus_of_cluster_global(consensus_df, contig, cluster_idx) ==
  consensus_df[cluster_idx]

\* The row create_mapping reads for a cluster:
\* contig_consensus.iloc[cluster_idx - 1].
consensus_of_cluster(consensus_df, contig, cluster_idx) ==
  contig_consensus(consensus_df, contig)[cluster_idx]

\* The assignments mapping[id_raw] = consensus_id of create_mapping, in the
\* order it makes them, each as <<id_raw, consensus_id>>.
mapping_writes(consensus_df, members) ==
  LET contigs == Unique([k \in 1..Len(members) |-> members[k].contig])
      ofContig(c) ==
        LET contig_members == SelectSeq(members, LAMBDA m : m.contig = c)
            cids == Unique([k \in 1..Len(contig_members) |-> contig_members[k].cluster_idx])
            ofCluster(cid) ==
              LET cluster_members == SelectSeq(contig_members, LAMBDA m : m.cluster_idx = cid)
              IN IF Len(contig_consensus(consensus_df, c)) >= cid
                 THEN [k \in 1..Len(cluster_members) |->
                         <<cluster_members[k].id_raw,
                           consensus_of_cluster(consensus_df, c, cid).consensus_id>>]
                 ELSE <<>>
            RECURSIVE clustersUpTo(_)
            clustersUpTo(n) == IF n = 0 THEN <<>>
                               ELSE clustersUpTo(n - 1) \o ofCluster(cids[n])
        IN clustersUpTo(Len(cids))
      RECURSIVE contigsUpTo(_)
      contigsUpTo(n) == IF n = 0 THEN <<>> ELSE contigsUpTo(n - 1) \o ofContig(contigs[n])
  IN contigsUpTo(Len(contigs))

\* create_mapping(consensus_df, members_df): the dictionary after all the
\* assignments; a later assignment to a key replaces an earlier one.
create_mapping(consensus_df, members) ==
  LET w == mapping_writes(consensus_df, members)
      last(id) == MaxOf({k \in 1..Len(w) : w[k][1] = id})
  IN [id \in {w[k][1] : k \in 1..Len(w)} |-> w[last(id)][2]]

CreateMapping ==
  /\ pc = "mapping"
  /\ mapping' = create_mapping(consensus, member_rows)
  /\ pc' = "done"
  /\ UNCHANGED otherVars
  /\ UNCHANGED <<calls, overlap_thresh, max_dist, tol, done_contigs, sweepVars,
                 member_rows, consensus>>

Next ==
  \/ BeginContig
  \/ OpenFirst
  \/ Merge
  \/ FlushAndOpen
  \/ EndContig
  \/ ConsensusEdgewise
  \/ CreateMapping

Spec == Init /\ [][Next]_vars

\* main() as far as the return of cluster_by_contig: the sweep alone.
NextCluster ==
  \/ BeginContig
  \/ OpenFirst
  \/ Merge
  \/ FlushAndOpen
  \/ EndContig

SpecCluster == Init /\ [][NextCluster]_vars

\* main() as far as the return of consensus_edgewise.
NextConsensus ==
  \/ NextCluster
  \/ ConsensusEdgewise

SpecConsensus == Init /\ [][NextConsensus]_vars

\* pandas' missing value, as a cell of an identifier column.
NaN == <<"NaN", NoneVal, NoneVal>>

\* Series.map(mapping): the value of the dictionary, NaN for a cell that is
\* not one of its keys.
series_map(column, mapping_) ==
  [k \in 1..Len(column) |->
     IF column[k] \in DOMAIN mapping_ THEN mapping_[column[k]] ELSE NaN]

\* Series.fillna(other): a NaN cell takes the cell of other in the same row.
fillna(series, other) ==
  [k \in 1..Len(series) |-> IF series[k] = NaN THEN other[k] ELSE series[k]]

\* Mutant of homogenize_file: the fillna left out.
homogenize_file_no_fillna(column, mapping_) == series_map(column, mapping_)

\* homogenize_file(input_path, output_path, mapping, id_column) on a file
\* that has the column: the column it writes, from the column it read.
homogenize_file(column, mapping_) == fillna(series_map(column, mapping_), column)

\* The cells of the identifier column of a file to homogenize: identifiers
\* that calls are read from, an identifier no call is read from, an empty
\* cell.
Cells ==
  { <<"ctg1", 100, 5000>>, <<"ctg1", 110, 4995>>, <<"ctg1", 9000, 9100>>,
    <<"ctg3", 7, 9>>, NaN }

\* The identifier columns of the files: at most MaxRows rows.
Columns == UNION {[1..n -> Cells] : n \in 0..MaxRows}

\* main() calls homogenize_file with the mapping of the run; the file has
\* the identifier column.
HomogenizeFile ==
  /\ pc = "done"
  /\ \E column \in Columns :
       /\ id_column' = column
       /\ homogenized' = homogenize_file(column, mapping)
  /\ pc' = "homogenized"
  /\ UNCHANGED <<calls, overlap_thresh, max_dist, tol, done_contigs, sweepVars,
                 member_rows, consensus, mapping, run, bg_values, returned,
                 listed_first>>

\* The file does not exist or has no such column: nothing is written.
HomogenizeSkipped ==
  /\ pc = "done"
  /\ pc' = "skipped"
  /\ UNCHANGED <<calls, overlap_thresh, max_dist, tol, done_contigs, sweepVars,
                 member_rows, consensus, mapping, otherVars>>

\* The runs of the documented scenarios (those with the default max_dist).
InitHomogenize == Init /\ max_dist = DefaultMaxDist

NextHomogenize ==
  \/ Next
  \/ HomogenizeFile
  \/ HomogenizeSkipped

SpecHomogenize == InitHomogenize /\ [][NextHomogenize]_vars

\* ------------------------------------------------------------------- rerun
\* A second run of main() on the identifiers the first run put out: the
\* consensus_id column of the consensus table is the identifier column of
\* one tool's summary file, and the pipeline starts again from the loaders.
Rerun ==
  /\ pc = "done"
  /\ run = 1
  /\ \E tool \in Tools :
       calls' = load_from(tool, [k \in 1..Len(consensus) |-> consensus[k].consensus_id])
  /\ run' = 2
  /\ pc' = "groupby"
  /\ done_contigs' = 0
  /\ dfc' = <<>>
  /\ i' = 1
  /\ cluster_id' = 0
  /\ cur_start' = NoneVal
  /\ cur_end' = NoneVal
  /\ cur_members' = <<>>
  /\ member_rows' = <<>>
  /\ consensus' = <<>>
  /\ mapping' = <<>>
  /\ UNCHANGED <<overlap_thresh, max_dist, tol, id_column, homogenized, bg_values,
                 returned, listed_first>>

NextRerun ==
  \/ Next
  \/ Rerun

SpecRerun == Init /\ [][NextRerun]_vars

\* ----------------------------------------------------------------- relisted
\* A second run of main() on the same calls listed in another order: the
\* rows of the call table are permuted, what the first run put out is kept
\* aside, and the pipeline starts again from cluster_by_contig.
Relist ==
  /\ pc = "done"
  /\ run = 1
  /\ \E p \in Permutations(1..Len(calls)) :
       calls' = [k \in 1..Len(calls) |-> calls[p[k]]]
  /\ listed_first' = [member_rows |-> member_rows, consensus |-> consensus,
                      mapping |-> mapping]
  /\ run' = 2
  /\ pc' = "groupby"
  /\ done_contigs' = 0
  /\ dfc' = <<>>
  /\ i' = 1
  /\ cluster_id' = 0
  /\ cur_start' = NoneVal
  /\ cur_end' = NoneVal
  /\ cur_members' = <<>>
  /\ member_rows' = <<>>
  /\ consensus' = <<>>
  /\ mapping' = <<>>
  /\ UNCHANGED <<overlap_thresh, max_dist, tol, id_column, homogenized, bg_values,
                 returned>>

\* The runs on small coordinates whose table has one call per tool or two
\* calls.
InitRelist ==
  /\ Init
  /\ max_dist = SmallConfig.max_dist
  /\ \/ Len(calls) = Cardinality({calls[k].tool : k \in 1..Len(calls)})
     \/ Len(calls) = 2

NextRelist ==
  \/ Next
  \/ Relist

SpecRelist == InitRelist /\ [][NextRelist]_vars

\* -------------------------------------------------------------- best_group
\* best_group called on its own: a list of at most MaxVals values, the
\* positions in the list as their tools, a tolerance.
InitBestGroup ==
  /\ pc = "best_group"
  /\ bg_values \in UNION {[1..n -> 0..MaxCoord] : n \in 0..MaxVals}
  /\ tol \in {0, SmallConfig.tol}
  /\ returned = <<>>
  /\ calls = <<>>
  /\ overlap_thresh = SmallConfig.overlap_thresh
  /\ max_dist = SmallConfig.max_dist
  /\ done_contigs = 0
  /\ dfc = <<>>
  /\ i = 1
  /\ cluster_id = 0
  /\ cur_start = NoneVal
  /\ cur_end = NoneVal
  /\ cur_members = <<>>
  /\ member_rows = <<>>
  /\ consensus = <<>>
  /\ mapping = <<>>
  /\ run = 1
  /\ id_column = <<>>
  /\ homogenized = <<>>
  /\ listed_first = <<>>

BestGroup ==
  /\ pc = "best_group"
  /\ returned' = best_group(bg_values, [k \in 1..Len(bg_values) |-> k], tol)
  /\ pc' = "returned"
  /\ UNCHANGED <<calls, overlap_thresh, max_dist, tol, done_contigs, sweepVars,
                 member_rows, consensus, mapping, run, id_column, homogenized,
                 bg_values, listed_first>>

NextBestGroup == BestGroup

SpecBestGroup == InitBestGroup /\ [][NextBestGroup]_vars

\* ================================================================== claims
\* Vocabulary of the claims, read off the state: cluster_by_contig has just
\* returned the member table, consensus_edgewise has just returned the
\* consensus table, create_mapping has returned the mapping.  No later step
\* changes member_rows or consensus.
Clustered == pc = "consensus"
Resolved == pc = "mapping"
Mapped == pc = "done"

\* A member row without its cluster label: the call it was made from.
CallOf(m) == [tool |-> m.tool, contig |-> m.contig, start |-> m.start,
              end |-> m.end, id_raw |-> m.id_raw]

\* The positions in member_rows of a contig's rows, and of a cluster's rows.
RowsOfContig(c) == {k \in 1..Len(member_rows) : member_rows[k].contig = c}
RowsOfCluster(c, cid) == {k \in RowsOfContig(c) : member_rows[k].cluster_idx = cid}
ClusterIds(c) == {member_rows[k].cluster_idx : k \in RowsOfContig(c)}
ClusterKeys == {<<member_rows[k].contig, member_rows[k].cluster_idx>> : k \in 1..Len(member_rows)}
ContigsOf(table) == {table[k].contig : k \in 1..Len(table)}

\* The representatives of a cluster and the record the consensus table holds
\* for it (the row create_mapping reads for the cluster).
RepsOf(c, cid) ==
  rep(SelectSeq(member_rows, LAMBDA m : m.contig = c /\ m.cluster_idx = cid))
RecordOf(c, cid) == consensus_of_cluster(consensus, c, cid)

\* ---------------------------------------------------------------------- C1
\* C1: every record of the consensus table has consensus_start <=
\* consensus_end (all calls have start <= end).
C1_StartLeEnd ==
  Mapped =>
    \A k \in 1..Len(consensus) :
      consensus[k].consensus_start <= consensus[k].consensus_end

\* ---------------------------------------------------------------------- C2
\* C2: after cluster_by_contig the member table holds every call of every
\* contig exactly once, and the clusters of a contig are numbered 1..K with
\* at least one member each (K the number of clusters the sweep opened).
C2_Partition ==
  /\ Clustered =>
       /\ Len(member_rows) = Len(calls)
       /\ \A k \in 1..Len(calls) :
            Cardinality({j \in 1..Len(member_rows) : CallOf(member_rows[j]) = calls[k]}) = 1
       /\ \A c \in ContigsOf(calls) :
            ClusterIds(c) = 1..Cardinality(ClusterIds(c))
  /\ (pc \in {"groupby", "consensus"} /\ done_contigs > 0) =>
       ClusterIds(GroupOrder(calls)[done_contigs]) = 1..cluster_id

\* C2 witness: a finished run on three calls, two of one contig in two
\* clusters.
C2_Witness ==
  /\ Clustered
  /\ Len(calls) = 3
  /\ \E c \in ContigsOf(calls) : Cardinality(ClusterIds(c)) = 2

\* ---------------------------------------------------------------------- C3
\* C3: after create_mapping every member call's id_raw is a key of the
\* mapping and maps to the consensus_id computed from the representatives of
\* the call's own cluster.
C3_MappingOwnCluster ==
  Mapped =>
    \A k \in 1..Len(member_rows) :
      LET m == member_rows[k]
      IN /\ m.id_raw \in DOMAIN mapping
         /\ mapping[m.id_raw] =
              consensus_row(m.contig, RepsOf(m.contig, m.cluster_idx), tol).consensus_id

\* C3 witness: a finished run over two contigs, one of them with two
\* clusters whose consensus identifiers differ.
C3_Witness ==
  /\ Mapped
  /\ Cardinality(ContigsOf(calls)) = 2
  /\ \E c \in ContigsOf(calls) :
       /\ Cardinality(ClusterIds(c)) = 2
       /\ \E j, k \in RowsOfContig(c) : mapping[member_rows[j].id_raw] # mapping[member_rows[k].id_raw]

\* ---------------------------------------------------------------------- C4
\* The end-to-end scenario: VirSorter2(100,5000), geNomad(110,4995) and a
\* VIBRANT call, with the default parameters.
EndToEndRun(vibrant) ==
  /\ calls = LoadCalls(<< <<"ctg1", 100, 5000>> >>, << vibrant >>, << <<"ctg1", 110, 4995>> >>)
  /\ overlap_thresh = DefaultOverlapThresh
  /\ max_dist = DefaultMaxDist
  /\ tol = DefaultTol

ToolsOfCluster(c, cid) == {member_rows[k].tool : k \in RowsOfCluster(c, cid)}

TwoClusters ==
  /\ ClusterIds("ctg1") = {1, 2}
  /\ ToolsOfCluster("ctg1", 1) = {"VirSorter2", "GeNomad"}
  /\ ToolsOfCluster("ctg1", 2) = {"VIBRANT"}
  /\ Len(consensus) = 2
  /\ consensus[1].n_tools = 2
  /\ consensus[2].n_tools = 1

\* C4 as stated: with VIBRANT(3000,3100) the run ends with the two clusters
\* {VirSorter2, geNomad} and {VIBRANT} and records with n_tools 2 and 1.
C4_TwoClustersAsStated ==
  (Mapped /\ EndToEndRun(<<"ctg1", 3000, 3100>>)) => TwoClusters

\* C4 amended: VIBRANT(3000,3100) lies inside [100,5000], so the run ends
\* with the single cluster {VirSorter2, geNomad, VIBRANT} and one record with
\* n_tools = 3; the two clusters and n_tools 2 and 1 are what a VIBRANT call
\* beyond max_distance, VIBRANT(9000,9100), gives.
C4_OneCluster ==
  /\ (Mapped /\ EndToEndRun(<<"ctg1", 3000, 3100>>)) =>
       /\ ClusterIds("ctg1") = {1}
       /\ ToolsOfCluster("ctg1", 1) = {"VirSorter2", "GeNomad", "VIBRANT"}
       /\ Len(consensus) = 1
       /\ consensus[1].n_tools = 3
  /\ (Mapped /\ EndToEndRun(<<"ctg1", 9000, 9100>>)) => TwoClusters

\* C4 witness: the scenario's run has finished.
C4_Witness == Mapped /\ EndToEndRun(<<"ctg1", 3000, 3100>>)

\* ---------------------------------------------------------------------- C5
\* The intersection of two calls, and their reciprocal overlap being at
\* least one half (0 when either has zero length).
Overlap(a, b) == Max2(0, Min2(a.end, b.end) - Max2(a.start, b.start))
HalfOverlap(a, b) ==
  /\ a.end > a.start
  /\ b.end > b.start
  /\ 2 * Overlap(a, b) >= a.end - a.start
  /\ 2 * Overlap(a, b) >= b.end - b.start

\* C5: two calls of one contig whose reciprocal overlap is >= 0.5 are in the
\* same cluster.
C5_OverlapSameCluster ==
  Clustered =>
    \A j, k \in 1..Len(member_rows) :
      (member_rows[j].contig = member_rows[k].contig
         /\ HalfOverlap(member_rows[j], member_rows[k]))
        => member_rows[j].cluster_idx = member_rows[k].cluster_idx

\* C5 witness: two calls that overlap by half, with another call of the
\* contig swept between them.
C5_Witness ==
  /\ Clustered
  /\ \E j, k \in 1..Len(member_rows) :
       /\ j + 1 < k
       /\ member_rows[j].contig = member_rows[k].contig
       /\ member_rows[j + 1].contig = member_rows[k].contig
       /\ HalfOverlap(member_rows[j], member_rows[k])
       /\ ~HalfOverlap(member_rows[j], member_rows[j + 1])

\* ---------------------------------------------------------------------- C6
\* The gap between two calls.
GapOf(a, b) == Max2(Max2(b.start - a.end, a.start - b.end), 0)

\* The end of the envelope of row j's cluster when row k is swept: the
\* largest end among the cluster's rows swept before k (j < k, same contig).
EnvEndBefore(j, k) ==
  MaxOf({member_rows[x].end :
           x \in {y \in RowsOfCluster(member_rows[j].contig, member_rows[j].cluster_idx) : y < k}})

\* The case of C6: row j is swept before row k of the same contig, they do
\* not intersect, their gap exceeds max_dist, and the envelope of j's
\* cluster ends more than max_dist before k's start.
FarApart(j, k) ==
  /\ j < k
  /\ member_rows[j].contig = member_rows[k].contig
  /\ Overlap(member_rows[j], member_rows[k]) = 0
  /\ GapOf(member_rows[j], member_rows[k]) > max_dist
  /\ member_rows[k].start - EnvEndBefore(j, k) > max_dist

\* C6: two calls in that case are in different clusters.
C6_FarApartDifferentClusters ==
  Clustered =>
    \A j, k \in 1..Len(member_rows) :
      FarApart(j, k) => member_rows[j].cluster_idx # member_rows[k].cluster_idx

\* C6 witness: a finished run with two calls in that case, the envelope of
\* the earlier one's cluster reaching beyond the earlier call's own end.
C6_Witness ==
  /\ Clustered
  /\ \E j, k \in 1..Len(member_rows) :
       FarApart(j, k) /\ EnvEndBefore(j, k) > member_rows[j].end

\* ---------------------------------------------------------------------- C7
MinStart(c, cid) == MinOf({member_rows[k].start : k \in RowsOfCluster(c, cid)})

\* C7: the clusters of a contig are numbered from 1 in sweep order (the rows
\* of the member table ascend by (start, end) and their cluster_idx never
\* decreases), and the minimum member start never decreases from a cluster
\* to the next.
C7_ClusterOrder ==
  Clustered =>
    \A c \in ContigsOf(calls) :
      /\ ClusterIds(c) = 1..Cardinality(ClusterIds(c))
      /\ \A j, k \in RowsOfContig(c) :
           j < k =>
             /\ member_rows[j].cluster_idx <= member_rows[k].cluster_idx
             /\ ~LessLex(<<member_rows[k].start, member_rows[k].end>>,
                         <<member_rows[j].start, member_rows[j].end>>)
      /\ \A cid \in ClusterIds(c) :
           (cid + 1) \in ClusterIds(c) => MinStart(c, cid) <= MinStart(c, cid + 1)

\* C7 witness: a contig with two clusters whose calls were listed in
\* descending order of start.
C7_Witness ==
  /\ Clustered
  /\ \E c \in ContigsOf(calls) :
       /\ Cardinality(ClusterIds(c)) = 2
       /\ \E j, k \in 1..Len(calls) :
            j < k /\ calls[j].contig = c /\ calls[k].contig = c
              /\ calls[k].start < calls[j].start

\* ------------------------------------------------------------ C8, C9, C10
\* Two values of a list within tol of each other, and a majority group of
\* the list: at least two indices, connected by such pairs, with no such
\* pair leaving the group.
Close(vals, a, b) == Abs(vals[a] - vals[b]) <= tol
HasClosePair(vals) == \E a, b \in DOMAIN vals : a # b /\ Close(vals, a, b)
IsGroup(vals, G) ==
  /\ G \subseteq DOMAIN vals
  /\ Cardinality(G) >= 2
  /\ \A S \in SUBSET G :
       (S # {} /\ S # G) => \E u \in S, v \in G \ S : Close(vals, u, v)
  /\ \A u \in G, v \in (DOMAIN vals) \ G : ~Close(vals, u, v)

\* The k-th smallest of the values at the indices G, and the floor of their
\* median.
KthSmallest(vals, G, k) ==
  CHOOSE x \in {vals[j] : j \in G} :
    /\ Cardinality({j \in G : vals[j] < x}) < k
    /\ k <= Cardinality({j \in G : vals[j] <= x})
FloorMedian(vals, G) ==
  LET n == Cardinality(G)
  IN (KthSmallest(vals, G, (n + 1) \div 2) + KthSmallest(vals, G, n \div 2 + 1)) \div 2

RepTools(g) == [k \in 1..Len(g) |-> g[k].tool]
RepStarts(g) == [k \in 1..Len(g) |-> g[k].start]
RepEnds(g) == [k \in 1..Len(g) |-> g[k].end]

\* One coordinate of a record resolved by the majority group G of vals.
ByGroup(g, vals, G, value, used, part, name) ==
  /\ IsGroup(vals, G)
  /\ value = FloorMedian(vals, G)
  /\ Range(used) = {g[k].tool : k \in G}
  /\ Len(used) = Cardinality(G)
  /\ part = [name |-> name, k |-> Cardinality(G)]

\* The majority scenario: representative starts [100, 105, 900] of the tools
\* [GeNomad, VIBRANT, VirSorter2], default parameters.
MajorityRun ==
  /\ calls = LoadCalls(<< <<"ctg1", 900, 5000>> >>, << <<"ctg1", 105, 5000>> >>,
                       << <<"ctg1", 100, 5000>> >>)
  /\ overlap_thresh = DefaultOverlapThresh
  /\ max_dist = DefaultMaxDist
  /\ tol = DefaultTol

\* C8: in a cluster of two or more tools, a coordinate for which some two
\* representatives are within tol is the floor of the median of one majority
\* group's values, with exactly that group's tools as used tools and the
\* fragment start_consensus_k / end_consensus_k, k the group's size; starts
\* [100, 105, 900] give 102, {GeNomad, VIBRANT} and start_consensus_2.
C8_MajorityGroup ==
  /\ Resolved =>
       \A key \in ClusterKeys :
         LET g == RepsOf(key[1], key[2])
             row == RecordOf(key[1], key[2])
         IN Len(g) >= 2 =>
              /\ HasClosePair(RepStarts(g)) =>
                   \E G \in SUBSET (1..Len(g)) :
                     ByGroup(g, RepStarts(g), G, row.consensus_start,
                             row.used_tools_start, row.method[1], "start_consensus")
              /\ HasClosePair(RepEnds(g)) =>
                   \E G \in SUBSET (1..Len(g)) :
                     ByGroup(g, RepEnds(g), G, row.consensus_end,
                             row.used_tools_end, row.method[2], "end_consensus")
  /\ (Resolved /\ MajorityRun) =>
       /\ Len(consensus) = 1
       /\ RepStarts(RepsOf("ctg1", 1)) = <<100, 105, 900>>
       /\ consensus[1].consensus_start = 102
       /\ consensus[1].used_tools_start = <<"GeNomad", "VIBRANT">>
       /\ consensus[1].method[1] = [name |-> "start_consensus", k |-> 2]

\* C8 witness: the majority scenario's run has finished.
C8_Witness == Resolved /\ MajorityRun

\* C9: in a cluster of two or more tools, a coordinate for which no two
\* representatives are within tol falls back (start: the minimum, end: the
\* maximum, all tools used, fragment start_min / end_max), the fallback is
\* taken in no other case (a group whose median is 0 is a group), and every
\* cluster gets its record.
C9_Fallback ==
  Resolved =>
    /\ \A c \in ContigsOf(calls) :
         Len(contig_consensus(consensus, c)) = Cardinality(ClusterIds(c))
    /\ \A key \in ClusterKeys :
         LET g == RepsOf(key[1], key[2])
             row == RecordOf(key[1], key[2])
         IN Len(g) >= 2 =>
              /\ ~HasClosePair(RepStarts(g)) =>
                   /\ row.consensus_start \in Range(RepStarts(g))
                   /\ \A v \in Range(RepStarts(g)) : row.consensus_start <= v
                   /\ Range(row.used_tools_start) = Range(RepTools(g))
                   /\ Len(row.used_tools_start) = Len(g)
              /\ ~HasClosePair(RepEnds(g)) =>
                   /\ row.consensus_end \in Range(RepEnds(g))
                   /\ \A v \in Range(RepEnds(g)) : row.consensus_end >= v
                   /\ Range(row.used_tools_end) = Range(RepTools(g))
                   /\ Len(row.used_tools_end) = Len(g)
              /\ row.method[1] = [name |-> "start_min", k |-> 0] <=> ~HasClosePair(RepStarts(g))
              /\ row.method[2] = [name |-> "end_max", k |-> 0] <=> ~HasClosePair(RepEnds(g))

\* C9 witness: a cluster of several tools with neither two starts nor two
\* ends within tol.
C9_Witness ==
  /\ Resolved
  /\ \E key \in ClusterKeys :
       LET g == RepsOf(key[1], key[2])
       IN Len(g) >= 2 /\ ~HasClosePair(RepStarts(g)) /\ ~HasClosePair(RepEnds(g))

\* C10: a cluster whose members all come from one tool has that tool's
\* representative start and end as its consensus, method single_tool, and
\* that tool alone as used tools of both coordinates.
C10_SingleTool ==
  Resolved =>
    \A key \in ClusterKeys :
      LET g == RepsOf(key[1], key[2])
          row == RecordOf(key[1], key[2])
      IN Cardinality(ToolsOfCluster(key[1], key[2])) = 1 =>
           /\ Len(g) = 1
           /\ row.consensus_start = g[1].start
           /\ row.consensus_end = g[1].end
           /\ row.method = <<[name |-> "single_tool", k |-> 0]>>
           /\ row.used_tools_start = <<g[1].tool>>
           /\ row.used_tools_end = <<g[1].tool>>
           /\ ToolsOfCluster(key[1], key[2]) = {g[1].tool}

\* C10 witness: a cluster of two different calls of one tool.
C10_Witness ==
  /\ Resolved
  /\ \E key \in ClusterKeys :
       /\ Cardinality(ToolsOfCluster(key[1], key[2])) = 1
       /\ \E j, k \in RowsOfCluster(key[1], key[2]) :
            member_rows[j].start # member_rows[k].start
              /\ member_rows[j].end # member_rows[k].end

\* --------------------------------------------------------------------- C11
\* C11: the n_tools of every record is the number of distinct tools among
\* its cluster's member calls (and `tools` lists exactly these tools, each
\* once), however many calls each tool has in the cluster.
C11_DistinctTools ==
  Resolved =>
    \A key \in ClusterKeys :
      LET row == RecordOf(key[1], key[2])
      IN /\ row.n_tools = Cardinality(ToolsOfCluster(key[1], key[2]))
         /\ Range(row.tools) = ToolsOfCluster(key[1], key[2])
         /\ Len(row.tools) = row.n_tools

\* C11 witness: a cluster with more member calls than tools.
C11_Witness ==
  /\ Resolved
  /\ \E key \in ClusterKeys :
       Cardinality(RowsOfCluster(key[1], key[2])) >
         Cardinality(ToolsOfCluster(key[1], key[2]))

\* --------------------------------------------------------------------- C12
\* The case of C12: the second run has ended, and it was given one call per
\* contig.
OneCallPerContig ==
  \A c \in ContigsOf(calls) : Cardinality({k \in 1..Len(calls) : calls[k].contig = c}) = 1

\* C12: a second run on the consensus_ids of a first run, one call per
\* contig, ends with clusters of one member each, every record with method
\* single_tool and with the identifier the run was given as its consensus_id.
C12_Idempotent ==
  (run = 2 /\ Mapped /\ OneCallPerContig) =>
    \A key \in ClusterKeys :
      LET row == RecordOf(key[1], key[2])
      IN /\ Cardinality(RowsOfCluster(key[1], key[2])) = 1
         /\ row.method = <<[name |-> "single_tool", k |-> 0]>>
         /\ \A k \in RowsOfCluster(key[1], key[2]) : row.consensus_id = member_rows[k].id_raw

\* --------------------------------------------------------------------- C13
\* C13: the consensus table has exactly one row for every (contig, cluster)
\* of the member table and no other row, and its rows ascend by contig and,
\* within a contig, by consensus_start.
C13_OneRowPerClusterSorted ==
  Resolved =>
    /\ Len(consensus) = Cardinality(ClusterKeys)
    /\ \A key \in ClusterKeys :
         LET row == consensus_row(key[1], RepsOf(key[1], key[2]), tol)
         IN Cardinality({p \in 1..Len(consensus) : consensus[p] = row}) = 1
    /\ \A j, k \in 1..Len(consensus) :
         j < k =>
           \/ ContigRank[consensus[j].contig] < ContigRank[consensus[k].contig]
           \/ /\ consensus[j].contig = consensus[k].contig
              /\ consensus[j].consensus_start <= consensus[k].consensus_start

\* C13 witness: three records over two contigs, the calls of the contig that
\* sorts last listed first.
C13_Witness ==
  /\ Resolved
  /\ Len(consensus) = 3
  /\ calls[1].contig = "ctg2"
  /\ consensus[1].contig = "ctg1"

Returned == pc = "returned"
Chosen == Range(returned[2])

\* The values at a set of indices form a chain: every one but the largest
\* has a larger one within tol above it (equal values are within tol).  On a
\* line this is the set being connected in the graph of pairs within tol.
Chained(vals, G) ==
  \A u \in G :
    \/ \A v \in G : vals[v] <= vals[u]
    \/ \E v \in G : vals[u] < vals[v] /\ vals[v] <= vals[u] + tol

\* A connected component of that graph: a chain that no index outside it is
\* within tol of.
IsComponent(vals, G) ==
  /\ G # {}
  /\ Chained(vals, G)
  /\ \A u \in G, v \in (DOMAIN vals) \ G : ~Close(vals, u, v)

Components(vals) == {G \in SUBSET (DOMAIN vals) : IsComponent(vals, G)}
WidthOf(vals, G) == MaxOf({vals[k] : k \in G}) - MinOf({vals[k] : k \in G})

\* C15: best_group returns None exactly when no component has two indices;
\* otherwise it returns the indices of one component of size >= 2, no
\* component is larger, and no component of the same size has a smaller
\* value range.
C15_BestComponent ==
  Returned =>
    LET big == {G \in Components(bg_values) : Cardinality(G) >= 2}
    IN /\ returned[1] = NoneVal <=> big = {}
       /\ returned[1] = NoneVal => returned[2] = <<>>
       /\ returned[1] # NoneVal =>
            /\ Chosen \in big
            /\ Len(returned[2]) = Cardinality(Chosen)
            /\ \A G \in big :
                 /\ Cardinality(G) <= Cardinality(Chosen)
                 /\ Cardinality(G) = Cardinality(Chosen) =>
                      WidthOf(bg_values, G) >= WidthOf(bg_values, Chosen)

\* C15 witness: the chosen component is not the first one of size >= 2 in
\* the list: a later one is larger, or as large and tighter.
C15_Witness ==
  /\ Returned
  /\ returned[1] # NoneVal
  /\ \E G \in Components(bg_values) :
       /\ Cardinality(G) >= 2
       /\ MinOf(G) < MinOf(Chosen)
  /\ \E G \in Components(bg_values) :
       Cardinality(G) >= 2 /\ Cardinality(G) < Cardinality(Chosen)

\* C16 as stated: the chosen group has at least two values and any two of
\* them differ by at most tol.
C16_MutuallyClose ==
  (Returned /\ returned[1] # NoneVal) =>
    /\ Cardinality(Chosen) >= 2
    /\ \A u, v \in Chosen : Close(bg_values, u, v)

\* C16 amended: the chosen group has at least two values, every value of it
\* is within tol of another value of it, and the group is a chain of such
\* pairs, so that two of its values differ by at most (size - 1) * tol.
C16_ChainClose ==
  (Returned /\ returned[1] # NoneVal) =>
    /\ Cardinality(Chosen) >= 2
    /\ \A u \in Chosen : \E v \in Chosen \ {u} : Close(bg_values, u, v)
    /\ Chained(bg_values, Chosen)
    /\ \A u, v \in Chosen :
         Abs(bg_values[u] - bg_values[v]) <= (Cardinality(Chosen) - 1) * tol

\* C16 witness: a chosen group with two values further apart than tol.
C16_Witness ==
  /\ Returned
  /\ returned[1] # NoneVal
  /\ \E u, v \in Chosen : ~Close(bg_values, u, v)

\* --------------------------------------------------------------------- C17
\* The rows of the open cluster, as flush() labels them.
OpenClusterRows ==
  [k \in 1..Len(cur_members) |->
     [tool |-> dfc[cur_members[k]].tool, contig |-> dfc[cur_members[k]].contig,
      start |-> dfc[cur_members[k]].start, end |-> dfc[cur_members[k]].end,
      id_raw |-> dfc[cur_members[k]].id_raw, cluster_idx |-> cluster_id]]

\* One step leaves the flushed clusters as they are: the member table only
\* grows at its end, and by rows of a cluster that was not in it.
FlushedKept ==
  /\ Len(member_rows') >= Len(member_rows)
  /\ SubSeq(member_rows', 1, Len(member_rows)) = member_rows
  /\ \A k \in (Len(member_rows) + 1)..Len(member_rows') :
       <<member_rows'[k].contig, member_rows'[k].cluster_idx>> \notin ClusterKeys

\* One step of the sweep on a call after the contig's first: the call joins
\* the open cluster, or the open cluster is flushed as it is and the call
\* opens the next one.
MergedOrOpened ==
  (pc = "sweep" /\ i <= Len(dfc) /\ cur_start # NoneVal) =>
    \/ /\ cur_members' = Append(cur_members, i)
       /\ cluster_id' = cluster_id
       /\ member_rows' = member_rows
    \/ /\ cur_members' = <<i>>
       /\ cluster_id' = cluster_id + 1
       /\ member_rows' = member_rows \o OpenClusterRows

\* C17: no backtracking: in every step the flushed clusters keep their
\* members, and every call after a contig's first either joins the one open
\* cluster or opens a new one.
C17_NoBacktracking == [][FlushedKept /\ MergedOrOpened]_vars

\* C17 witness: after a cluster of the contig was flushed, a later call has
\* joined the cluster that is open now.
C17_Witness ==
  /\ pc = "sweep"
  /\ cluster_id >= 2
  /\ Len(cur_members) >= 2
  /\ \E k \in 1..Len(member_rows) : member_rows[k].contig = dfc[1].contig

\* --------------------------------------------------------------------- C18
\* The starts and ends of the member rows, by position, and the positions of
\* one tool's members in a cluster.
MemberStarts == [k \in 1..Len(member_rows) |-> member_rows[k].start]
MemberEnds == [k \in 1..Len(member_rows) |-> member_rows[k].end]
RowsOfTool(c, cid, t) == {k \in RowsOfCluster(c, cid) : member_rows[k].tool = t}

\* The positions of the representatives of a cluster whose tools are in a
\* list of used tools.
UsedReps(g, used) == {k \in 1..Len(g) : g[k].tool \in Range(used)}

\* C18: the representatives are one per cluster and tool with members in it,
\* with the floor of the median of the tool's member starts and of its
\* member ends; and a coordinate resolved by a majority group is the floor
\* of the median of the group's representative values.
C18_FloorMedians ==
  Resolved =>
    LET reps == rep(member_rows)
    IN /\ \A p \in 1..Len(reps) :
            RowsOfTool(reps[p].contig, reps[p].cluster_idx, reps[p].tool) # {}
       /\ \A key \in ClusterKeys :
            \A t \in ToolsOfCluster(key[1], key[2]) :
              LET ps == {p \in 1..Len(reps) :
                           /\ reps[p].contig = key[1]
                           /\ reps[p].cluster_idx = key[2]
                           /\ reps[p].tool = t}
                  rows == RowsOfTool(key[1], key[2], t)
              IN /\ Cardinality(ps) = 1
                 /\ \A p \in ps :
                      /\ reps[p].start = FloorMedian(MemberStarts, rows)
                      /\ reps[p].end = FloorMedian(MemberEnds, rows)
       /\ \A key \in ClusterKeys :
            LET g == RepGroup(reps, key[1], key[2])
                row == RecordOf(key[1], key[2])
            IN Len(g) >= 2 =>
                 /\ row.method[1].name = "start_consensus" =>
                      row.consensus_start =
                        FloorMedian(RepStarts(g), UsedReps(g, row.used_tools_start))
                 /\ row.method[2].name = "end_consensus" =>
                      row.consensus_end =
                        FloorMedian(RepEnds(g), UsedReps(g, row.used_tools_end))

\* C18 witness: a tool with two members in a cluster whose starts, and whose
\* ends, have a median that is not an integer.
C18_Witness ==
  /\ Resolved
  /\ \E key \in ClusterKeys :
       \E t \in ToolsOfCluster(key[1], key[2]) :
         \E j, k \in RowsOfTool(key[1], key[2], t) :
           /\ Cardinality(RowsOfTool(key[1], key[2], t)) = 2
           /\ (member_rows[j].start + member_rows[k].start) % 2 = 1
           /\ (member_rows[j].end + member_rows[k].end) % 2 = 1

\* --------------------------------------------------------------------- C19
\* Values of overlap_thresh in (0, 1], as <<numerator, denominator>>.
Thresholds == {<<1, 1000>>, <<1, 4>>, <<1, 2>>, <<3, 4>>, <<1, 1>>}

\* The sweep is about to test the call dfc[i] against the open cluster.
AtMergeTest == pc = "sweep" /\ i <= Len(dfc) /\ cur_start # NoneVal

\* The gap test alone.
GapAlone == Max2(dfc[i].start - cur_end, 0) <= max_dist

\* The largest end among the rows of the member table before row k that are
\* of row k's contig.
EndsBefore(k) ==
  {member_rows[j].end : j \in {x \in 1..(k - 1) : member_rows[x].contig = member_rows[k].contig}}

\* C19: whenever the sweep tests a call, the merge rule gives, for every
\* overlap_thresh in (0, 1], what the gap test max(s - cur_end, 0) <= max_dist
\* gives alone (where the gap test passes, the proximity disjunct of the
\* rule passes, whatever the threshold; where it fails, the rule fails for
\* every threshold); and the clusters the sweep ends with are those of the
\* gap test alone: a call opens a cluster exactly when it is the contig's
\* first or starts more than max_dist after every end swept before it.
C19_OverlapRedundant ==
  /\ AtMergeTest =>
       IF GapAlone
       THEN gap(dfc[i].start, dfc[i].end, cur_start, cur_end) <= max_dist
       ELSE \A thr \in Thresholds :
              ~merges(dfc[i].start, dfc[i].end, cur_start, cur_end, thr, max_dist)
  /\ Clustered =>
       \A k \in 1..Len(member_rows) :
         LET opens == \A j \in 1..(k - 1) :
                        member_rows[j].contig = member_rows[k].contig =>
                          member_rows[j].cluster_idx < member_rows[k].cluster_idx
         IN opens <=> (EndsBefore(k) = {} \/
                         member_rows[k].start - MaxOf(EndsBefore(k)) > max_dist)

\* C19 witness: a call passes the reciprocal-overlap test of the merge rule.
C19_Witness ==
  /\ AtMergeTest
  /\ min_recip_ge(dfc[i].start, dfc[i].end, cur_start, cur_end, overlap_thresh)
  /\ dfc[i].start > cur_start

\* --------------------------------------------------------------------- C20
\* The record consensus_edgewise computes for a cluster.
RowOfCluster(c, cid) == consensus_row(c, RepsOf(c, cid), tol)

\* C20: within a contig consensus_start increases strictly with cluster_idx,
\* and the k-th of the contig's rows of the sorted consensus table is the
\* record of the cluster with cluster_idx k.
C20_PositionIsClusterIdx ==
  Resolved =>
    \A c \in ContigsOf(calls) :
      LET rows == contig_consensus(consensus, c)
          K == Cardinality(ClusterIds(c))
          computed == [cid \in 1..K |-> RowOfCluster(c, cid)]
      IN /\ Len(rows) = K
         /\ \A cid \in 1..K : rows[cid] = computed[cid]
         /\ \A cid \in 1..(K - 1) :
              computed[cid].consensus_start < computed[cid + 1].consensus_start

\* C20 witness: a contig with two clusters, the first of them of two tools,
\* whose calls were not listed in ascending order of start.
C20_Witness ==
  /\ Resolved
  /\ \E c \in ContigsOf(calls) :
       /\ Cardinality(ClusterIds(c)) = 2
       /\ Cardinality(ToolsOfCluster(c, 1)) = 2
       /\ \E j, k \in 1..Len(calls) :
            j < k /\ calls[j].contig = c /\ calls[k].contig = c
              /\ calls[k].start < calls[j].start

\* --------------------------------------------------------------------- C21
\* C21: two member calls with the same id_raw are in the same cluster of the
\* same contig, every assignment create_mapping makes to a key carries the
\* same consensus_id, and the mapping holds exactly the assigned keys with
\* that consensus_id.
C21_MappingWellDefined ==
  Mapped =>
    LET w == mapping_writes(consensus, member_rows)
    IN /\ \A j, k \in 1..Len(member_rows) :
            member_rows[j].id_raw = member_rows[k].id_raw =>
              /\ member_rows[j].contig = member_rows[k].contig
              /\ member_rows[j].cluster_idx = member_rows[k].cluster_idx
       /\ \A j, k \in 1..Len(w) : w[j][1] = w[k][1] => w[j][2] = w[k][2]
       /\ DOMAIN mapping = {w[k][1] : k \in 1..Len(w)}
       /\ \A k \in 1..Len(w) : mapping[w[k][1]] = w[k][2]

\* C21 witness: two tools report the same zero-length identifier, and a
\* third call of the contig is in another cluster.
C21_Witness ==
  /\ Mapped
  /\ \E j, k \in 1..Len(member_rows) :
       /\ j # k
       /\ member_rows[j].id_raw = member_rows[k].id_raw
       /\ member_rows[j].start = member_rows[j].end
       /\ Cardinality(ClusterIds(member_rows[j].contig)) = 2

\* --------------------------------------------------------------------- C22
StartsOfCluster(c, cid) == {member_rows[k].start : k \in RowsOfCluster(c, cid)}
EndsOfCluster(c, cid) == {member_rows[k].end : k \in RowsOfCluster(c, cid)}

\* C22: the record of every cluster has its consensus_start between the
\* smallest and the largest member start and its consensus_end between the
\* smallest and the largest member end, whatever the method.
C22_InsideEnvelope ==
  Resolved =>
    \A key \in ClusterKeys :
      LET r == RecordOf(key[1], key[2])
          S == StartsOfCluster(key[1], key[2])
          E == EndsOfCluster(key[1], key[2])
      IN /\ MinOf(S) <= r.consensus_start
         /\ r.consensus_start <= MaxOf(S)
         /\ MinOf(E) <= r.consensus_end
         /\ r.consensus_end <= MaxOf(E)

\* C22 witness: a cluster whose start is a majority median strictly between
\* the smallest and the largest member start and whose end is the fallback
\* maximum.
C22_Witness ==
  /\ Resolved
  /\ \E key \in ClusterKeys :
       LET r == RecordOf(key[1], key[2])
           S == StartsOfCluster(key[1], key[2])
       IN /\ r.method[1].name = "start_consensus"
          /\ r.method[2].name = "end_max"
          /\ MinOf(S) < r.consensus_start
          /\ r.consensus_start < MaxOf(S)

\* --------------------------------------------------------------------- C23
Relisted == run = 2 /\ listed_first # <<>>

\* C23: the run on the permuted call table ends with the same member rows
\* (the same calls with the same cluster_idx), the same consensus table and
\* the same identifier map as the run on the table as first listed.
C23_OrderIndependent ==
  (Mapped /\ Relisted) =>
    /\ Range(member_rows) = Range(listed_first.member_rows)
    /\ Len(member_rows) = Len(listed_first.member_rows)
    /\ consensus = listed_first.consensus
    /\ mapping = listed_first.mapping

\* C23 witness: the relisted table differs from the first, the calls come
\* from three tools, two of them report the same interval, and the contig
\* has a second cluster.
C23_Witness ==
  /\ Mapped
  /\ Relisted
  /\ member_rows # listed_first.member_rows
  /\ Len(calls) = 3
  /\ \E j, k \in 1..Len(calls) :
       /\ j < k
       /\ calls[j].tool # calls[k].tool
       /\ calls[j].contig = calls[k].contig
       /\ calls[j].start = calls[k].start
       /\ calls[j].end = calls[k].end
       /\ Cardinality(ClusterIds(calls[j].contig)) = 2

\* --------------------------------------------------------------------- C24
\* A cluster is open: the sweep of a contig is past its first row.
ClusterOpen == pc = "sweep" /\ cur_start # NoneVal

\* The open cluster's envelope is that of its members, which are rows of the
\* contig being swept; its start is the start of the member that opened it.
EnvelopeOfMembers ==
  /\ cur_members # <<>>
  /\ \A k \in 1..Len(cur_members) :
       /\ cur_members[k] \in 1..Len(dfc)
       /\ cur_members[k] < i
       /\ dfc[cur_members[k]].contig = GroupOrder(calls)[done_contigs + 1]
  /\ cur_start = MinOf({dfc[cur_members[k]].start : k \in 1..Len(cur_members)})
  /\ cur_end = MaxOf({dfc[cur_members[k]].end : k \in 1..Len(cur_members)})
  /\ cur_start = dfc[cur_members[1]].start

\* C24: every step of the sweep taken while a cluster is open starts with
\* cur_start at the smallest start and cur_end at the largest end of
\* cur_members, which is not empty and holds rows of the contig being swept;
\* and a step that keeps the same cluster open leaves cur_start as it was.
C24_EnvelopeInvariant ==
  [][ /\ ClusterOpen => EnvelopeOfMembers
      /\ (ClusterOpen /\ ClusterOpen' /\ cluster_id' = cluster_id) =>
           cur_start' = cur_start ]_vars

\* C24 witness: the open cluster has two members or more and the member
\* merged last starts after cur_start and ends before cur_end.
C24_Witness ==
  /\ ClusterOpen
  /\ Len(cur_members) >= 2
  /\ dfc[cur_members[Len(cur_members)]].start > cur_start
  /\ dfc[cur_members[Len(cur_members)]].end < cur_end

====
